---------------------------- MODULE Spec2Model ----------------------------
(***************************************************************************)
(* Pointer-token canonicalisation and consent-metadata migration           *)
(* (scripts/migrate_pointer_tokens.py).                                    *)
(*                                                                         *)
(* A string is a sequence of characters; a character is a one-element      *)
(* name.  Besides the ASCII characters the code tests for, the alphabet    *)
(* holds three compatibility characters whose NFKC form is not themselves: *)
(*   "FWGT"      U+FF1E FULLWIDTH GREATER-THAN SIGN, NFKC = ">"            *)
(*   "FWCOLON"   U+FF1A FULLWIDTH COLON,             NFKC = ":"            *)
(*   "DIAERESIS" U+00A8 DIAERESIS,       NFKC = U+0020 U+0308 (" ","COMB") *)
(* None of the three is whitespace for the regular expression class \s.    *)
(* "COMB" (U+0308) only ever follows a space here, so NFKC composes        *)
(* nothing and acts character by character on this alphabet.               *)
(***************************************************************************)
EXTENDS Integers, Sequences, FiniteSets, TLC

VARIABLES
    text,       \* SpecText: the input string
    ptr,        \* SpecText: canonicalise_pointer(text), or NoResult
    once,       \* SpecText: canonicalise_text(text), or NoResult
    twice,      \* SpecText: canonicalise_text(once.s), or NoResult
    tpc,        \* SpecText: position of the text driver
    doc,        \* SpecJson: the JSON value handed to the walker
    consent,    \* SpecJson: the default consent level
    walked,     \* SpecJson: canonicalise_json(doc, consent), or NoWalk
    rewalked,   \* SpecJson: canonicalise_json(walked.v, consent), or NoWalk
    jpc,        \* SpecJson: position of the walker driver
    stores,         \* Spec: the .sqlite files under the state directory, in walk order
    files,          \* Spec: the JSON files, by path
    extra_json,     \* Spec: args.extra_json
    dry_run,        \* Spec: args.dry_run
    args_consent,   \* Spec: args.default_consent
    pc,             \* Spec: where main is
    si,             \* Spec: index of the store main's loop is at
    updates,        \* Spec: update_memory_records' list `updates`
    ui,             \* Spec: index of the next update to execute
    pending,        \* Spec: the rows as the open transaction sees them
    conn,           \* Spec: the connection last opened: "none", "open", "closed"
    targets,        \* Spec: json_targets
    fi,             \* Spec: index of the next target
    total_updates,  \* Spec: main's total_updates
    json_changed,   \* Spec: canonicalise_json_files' count
    run,            \* Spec: 1 for the first run of the tool, 2 for the run after it
    first,          \* Spec: how the first run ended and what it reported
    snap,           \* Spec: stores and files as the current run found them
    commits,        \* Spec: commits issued per store in this run
    outcome,        \* Spec: how update_memory_records ended per store in this run
    rupdates,       \* Spec: the ids the open transaction has executed an UPDATE for
    faults,         \* Spec: the sqlite3 errors raised by queries so far
    fwrites,        \* Spec: the files written in this run, as [path, before]
    log             \* Spec: the statements and file operations this run has executed

textVars == <<text, ptr, once, twice, tpc>>

jsonVars == <<doc, consent, walked, rewalked, jpc>>

runVars ==
    <<stores, files, extra_json, dry_run, args_consent, pc, si, updates, ui, pending,
      conn, targets, fi, total_updates, json_changed, run, first, snap, commits, outcome,
      rupdates, faults, fwrites, log>>

vars ==
    <<text, ptr, once, twice, tpc, doc, consent, walked, rewalked, jpc,
      stores, files, extra_json, dry_run, args_consent, pc, si, updates, ui, pending,
      conn, targets, fi, total_updates, json_changed, run, first, snap, commits, outcome,
      rupdates, faults, fwrites, log>>

-----------------------------------------------------------------------------
(* Bounds of the model *)

\* the most pieces an input string of SpecText is assembled from
MaxPieces == 4

\* the most keys of an input object of SpecJson
MaxKeys == 2

\* the most rows of the first store of Spec
MaxRows == 2

\* the most sqlite3 errors that queries of Spec raise
MaxFaults == 1

(* Program constants *)

\* POINTER_RE admits 1..255 interior characters
MaxInterior == 255

\* canonicalise_pointer rejects a normalised token longer than 256
MaxTokenLen == 256

-----------------------------------------------------------------------------
(* Characters *)

\* str.isspace(), the class \s of a str pattern
IsSpace(c) == c \in {" ", "CR", "LF"}

\* unicodedata.normalize("NFKC", c) for one character
NFKCChar(c) ==
    CASE c = "FWGT" -> <<">">>
      [] c = "FWCOLON" -> <<":">>
      [] c = "DIAERESIS" -> <<" ", "COMB">>
      [] OTHER -> <<c>>

\* str.lower() for one character
LowerChar(c) ==
    CASE c = "A" -> "a"
      [] c = "B" -> "b"
      [] c = "C" -> "c"
      [] c = "E" -> "e"
      [] OTHER -> c

(* Strings *)

\* unicodedata.normalize("NFKC", s): character by character on this
\* alphabet, computed by halves
RECURSIVE NFKC(_)
NFKC(s) ==
    IF Len(s) = 0 THEN <<>>
    ELSE IF Len(s) = 1 THEN NFKCChar(s[1])
    ELSE NFKC(SubSeq(s, 1, Len(s) \div 2)) \o NFKC(SubSeq(s, Len(s) \div 2 + 1, Len(s)))

\* the indices of s that str.replace("\r\n", "\n") keeps: all but those of
\* a "\r" that a "\n" follows (two occurrences of "\r\n" never overlap)
KeptByReplace(s) ==
    SelectSeq([i \in 1..Len(s) |-> i],
              LAMBDA i : ~(s[i] = "CR" /\ i < Len(s) /\ s[i + 1] = "LF"))

Pick(s, indices) == [k \in 1..Len(indices) |-> s[indices[k]]]

\* str.replace("\r\n", "\n")
ReplaceCRLF(s) == Pick(s, KeptByReplace(s))

Lower(s) == [i \in 1..Len(s) |-> LowerChar(s[i])]

StartsWithOpen(s) == Len(s) >= 2 /\ s[1] = "<" /\ s[2] = "@"

EndsWithClose(s) == Len(s) >= 1 /\ s[Len(s)] = ">"

\* the index of the first c in s, 0 when there is none
IndexOf(s, c) ==
    IF \E i \in 1..Len(s) : s[i] = c
    THEN CHOOSE i \in 1..Len(s) : s[i] = c /\ \A j \in 1..(i - 1) : s[j] # c
    ELSE 0

RECURSIVE Join(_)
Join(parts) == IF parts = <<>> THEN <<>> ELSE Head(parts) \o Join(Tail(parts))

-----------------------------------------------------------------------------
(* canonicalise_pointer: a pair (string, changed) as [s, ch] *)

\* the return of line 38: (canonical, canonical != token)
Canonical(token, canonical) == [s |-> canonical, ch |-> canonical # token]

\* mutant: a token without a ":" is dropped
SplitInterior_Drops(token, interior, colon) ==
    IF colon = 0
    THEN [s |-> <<>>, ch |-> FALSE]
    ELSE Canonical(token,
                   <<"<", "@">> \o Lower(SubSeq(interior, 1, colon - 1)) \o <<":">>
                       \o SubSeq(interior, colon + 1, Len(interior)) \o <<">">>)

\* mutant: the remainder is lower-cased with the prefix
SplitInterior_LowersAll(token, interior, colon) ==
    IF colon = 0
    THEN [s |-> token, ch |-> FALSE]
    ELSE Canonical(token, <<"<", "@">> \o Lower(interior) \o <<">">>)

\* lines 31-37: interior split at the first ":" (index colon, 0 for none:
\* the ValueError branch), the prefix lower-cased, the token reassembled
SplitInterior(token, interior, colon) ==
    IF colon = 0
    THEN [s |-> token, ch |-> FALSE]
    ELSE Canonical(token,
                   <<"<", "@">> \o Lower(SubSeq(interior, 1, colon - 1)) \o <<":">>
                       \o SubSeq(interior, colon + 1, Len(interior)) \o <<">">>)

\* mutant: the length of the normalised token is not tested
Validate_NoLengthCheck(token, normalised) ==
    IF \/ ~StartsWithOpen(normalised)
       \/ ~EndsWithClose(normalised)
    THEN [s |-> token, ch |-> FALSE]
    ELSE SplitInterior(token, SubSeq(normalised, 3, Len(normalised) - 1),
                       IndexOf(SubSeq(normalised, 3, Len(normalised) - 1), ":"))

\* lines 28-34 on the normalised token
Validate(token, normalised) ==
    IF \/ Len(normalised) > MaxTokenLen
       \/ ~StartsWithOpen(normalised)
       \/ ~EndsWithClose(normalised)
    THEN [s |-> token, ch |-> FALSE]
    ELSE SplitInterior(token, SubSeq(normalised, 3, Len(normalised) - 1),
                       IndexOf(SubSeq(normalised, 3, Len(normalised) - 1), ":"))

canonicalise_pointer(token) == Validate(token, ReplaceCRLF(NFKC(token)))

-----------------------------------------------------------------------------
(* POINTER_RE = <@[^>\s]{1,255}> *)

InClass(c) == c # ">" /\ ~IsSpace(c)

\* the least element of a non-empty set of integers
Least(S) == CHOOSE x \in S : \A y \in S : x <= y

\* the length of the run that ends before the first index of stops, or at
\* the end of value
RunTo(value, i, stops) == IF stops = {} THEN Len(value) - i + 1 ELSE Least(stops) - i

\* the number of class characters of value from index i on
ClassRun(value, i) == RunTo(value, i, { j \in i..Len(value) : ~InClass(value[j]) })

\* the index of the last character of the match that starts at i, 0 when
\* the pattern does not match at i.  The class excludes ">", so the greedy
\* run is the only candidate: it matches when it has 1..255 characters and
\* the character after it is ">".
MatchEnd(value, i) ==
    IF i + 1 <= Len(value) /\ value[i] = "<" /\ value[i + 1] = "@"
    THEN LET n == ClassRun(value, i + 2)
             close == i + 2 + n
         IN  IF n >= 1 /\ n <= MaxInterior /\ close <= Len(value) /\ value[close] = ">"
             THEN close
             ELSE 0
    ELSE 0

\* POINTER_RE.finditer(value) from index i on: the spans <<start, end>> of
\* the non-overlapping matches, left to right
RECURSIVE FindIter(_, _)
FindIter(value, i) ==
    LET starts == { j \in i..Len(value) : MatchEnd(value, j) # 0 }
    IN  IF starts = {} THEN <<>>
        ELSE <<(<<Least(starts), MatchEnd(value, Least(starts))>>)>>
                 \o FindIter(value, MatchEnd(value, Least(starts)) + 1)

\* mutant: the text between two matches is not copied
ScanStep_DropsGap(value, start, end, r, acc) ==
    [parts |-> acc.parts \o <<r.s>>,
     changed |-> acc.changed \/ r.ch,
     last |-> end]

\* one round of the loop of canonicalise_text: the match value[start..end]
\* with r = canonicalise_pointer of it, appended to acc = [parts, changed, last]
ScanStep(value, start, end, r, acc) ==
    [parts |-> acc.parts \o <<SubSeq(value, acc.last + 1, start - 1), r.s>>,
     changed |-> acc.changed \/ r.ch,
     last |-> end]

\* the loop of canonicalise_text over the matches
RECURSIVE ScanLoop(_, _, _)
ScanLoop(value, spans, acc) ==
    IF spans = <<>> THEN acc
    ELSE ScanLoop(value, Tail(spans),
                  ScanStep(value, Head(spans)[1], Head(spans)[2],
                           canonicalise_pointer(SubSeq(value, Head(spans)[1], Head(spans)[2])),
                           acc))

\* lines 54-57 on the loop's result
ScanResult(value, acc) ==
    IF acc.parts = <<>>
    THEN [s |-> value, ch |-> FALSE]
    ELSE [s |-> Join(acc.parts \o <<SubSeq(value, acc.last + 1, Len(value))>>),
          ch |-> acc.changed]

canonicalise_text(value) ==
    ScanResult(value, ScanLoop(value, FindIter(value, 1),
                               [parts |-> <<>>, changed |-> FALSE, last |-> 0]))

-----------------------------------------------------------------------------
(* JSON values.  A value is [t, s, kids]: t is the kind ("str", "num",     *)
(* "null", "obj", "arr"), s the characters of a string, kids the members   *)
(* of an object in insertion order as [k, v] (keys distinct, as in a       *)
(* dict) or the elements of an array (k = "").                             *)

Str(s) == [t |-> "str", s |-> s, kids |-> <<>>]

Num == [t |-> "num", s |-> <<>>, kids |-> <<>>]

Null == [t |-> "null", s |-> <<>>, kids |-> <<>>]

Obj(kids) == [t |-> "obj", s |-> <<>>, kids |-> kids]

Arr(items) == [t |-> "arr", s |-> <<>>, kids |-> [i \in 1..Len(items) |-> [k |-> "", v |-> items[i]]]]

\* key in value
HasKey(kids, key) == \E i \in 1..Len(kids) : kids[i].k = key

\* value.get(key): the member's value, Null when the key is absent
Get(kids, key) ==
    IF HasKey(kids, key)
    THEN kids[CHOOSE i \in 1..Len(kids) : kids[i].k = key].v
    ELSE Null

\* mutant: an assignment moves the key to the end of the dict
SetKey_MovesToEnd(kids, key, v) ==
    Append(SelectSeq(kids, LAMBDA m : m.k # key), [k |-> key, v |-> v])

\* value[key] = v: in place for a key the dict has, appended otherwise
SetKey(kids, key, v) ==
    IF HasKey(kids, key)
    THEN [i \in 1..Len(kids) |-> IF kids[i].k = key THEN [k |-> key, v |-> v] ELSE kids[i]]
    ELSE Append(kids, [k |-> key, v |-> v])

\* mutant: the injection without the test for a consent key
InjectConsent_Overwrite(kids, key, default_consent) ==
    IF key = "pointer" THEN SetKey(kids, "consent", Str(default_consent)) ELSE kids

\* mutant: the injection under the wrong key
InjectConsent_WrongKey(kids, key, default_consent) ==
    IF key = "consent" /\ ~HasKey(kids, "consent")
    THEN SetKey(kids, "consent", Str(default_consent))
    ELSE kids

\* the `consent` test and assignment of a changed exact-match token
InjectConsent(kids, key, default_consent) ==
    IF key = "pointer" /\ ~HasKey(kids, "consent")
    THEN SetKey(kids, "consent", Str(default_consent))
    ELSE kids

\* mutant: the substring-scan tier injects consent as well
StringTiers_ScanInjects(kids, key, exact, scan, default_consent) ==
    IF exact.ch
    THEN [kids |-> InjectConsent(SetKey(kids, key, Str(exact.s)), key, default_consent),
          ch |-> TRUE]
    ELSE IF scan.ch
         THEN [kids |-> InjectConsent(SetKey(kids, key, Str(scan.s)), key, default_consent),
               ch |-> TRUE]
         ELSE [kids |-> kids, ch |-> FALSE]

\* the string branch of the dict loop: exact the result of the exact-match
\* tier, scan the result of the substring scan the else branch runs
StringTiers(kids, key, exact, scan, default_consent) ==
    IF exact.ch
    THEN [kids |-> InjectConsent(SetKey(kids, key, Str(exact.s)), key, default_consent),
          ch |-> TRUE]
    ELSE IF scan.ch
         THEN [kids |-> SetKey(kids, key, Str(scan.s)), ch |-> TRUE]
         ELSE [kids |-> kids, ch |-> FALSE]

DictString(kids, key, item, default_consent) ==
    StringTiers(kids, key, canonicalise_pointer(item.s), canonicalise_text(item.s),
                default_consent)

\* mutant: the domain is lowered without `changed = True`
FoldTo_Silent(kids, domain) ==
    IF domain.t = "str" /\ Lower(domain.s) # domain.s
    THEN [kids |-> SetKey(kids, "domain", Str(Lower(domain.s))), ch |-> FALSE]
    ELSE [kids |-> kids, ch |-> FALSE]

\* "Normalise domain casing when present"
FoldTo(kids, domain) ==
    IF domain.t = "str" /\ Lower(domain.s) # domain.s
    THEN [kids |-> SetKey(kids, "domain", Str(Lower(domain.s))), ch |-> TRUE]
    ELSE [kids |-> kids, ch |-> FALSE]

DomainFold(kids) == FoldTo(kids, Get(kids, "domain"))

\* one round of the loop over list(value.items()): the member key: item of
\* the snapshot, walk the walker's result for it when it is no string,
\* acc = [kids, ch] the dict as mutated so far.  A container member is
\* mutated in place, so the dict holds its walked form whatever it reports.
DictStep(key, item, walk, acc, default_consent) ==
    IF item.t = "str"
    THEN DictString(acc.kids, key, item, default_consent)
    ELSE [kids |-> SetKey(acc.kids, key, walk.v), ch |-> walk.ch]

\* mutant: `changed` keeps what the last member reported only
Accumulate_LastOnly(acc, step) == [kids |-> step.kids, ch |-> step.ch]

Accumulate(acc, step) == [kids |-> step.kids, ch |-> acc.ch \/ step.ch]

\* the loop over list(value.items()), walks[i] the walker's result for the
\* i-th member of the snapshot
RECURSIVE DictLoop(_, _, _, _, _)
DictLoop(items, walks, i, acc, default_consent) ==
    IF i > Len(items) THEN acc
    ELSE DictLoop(items, walks, i + 1,
                  Accumulate(acc, DictStep(items[i].k, items[i].v, walks[i], acc,
                                           default_consent)),
                  default_consent)

\* lines 83-90 on the looped dict
DictResult(looped, folded) == [v |-> Obj(folded.kids), ch |-> looped.ch \/ folded.ch]

DictFold(looped) == DictResult(looped, DomainFold(looped.kids))

\* the loop over enumerate(value) of a list, walks[i] the walker's result
\* for the i-th element
ListLoop(items, walks) ==
    [v |-> [t |-> "arr", s |-> <<>>,
            kids |-> [i \in 1..Len(items) |-> [k |-> "", v |-> walks[i].v]]],
     ch |-> \E i \in 1..Len(items) : walks[i].ch]

\* the branches of canonicalise_json, walks[i] its result for the i-th
\* member or element
WalkValue(value, walks, default_consent) ==
    CASE value.t = "obj" ->
            DictFold(DictLoop(value.kids, walks, 1, [kids |-> value.kids, ch |-> FALSE],
                              default_consent))
      [] value.t = "arr" -> ListLoop(value.kids, walks)
      [] value.t = "str" ->
            [v |-> Str(canonicalise_text(value.s).s), ch |-> canonicalise_text(value.s).ch]
      [] OTHER -> [v |-> value, ch |-> FALSE]

\* a pair (value, changed) as [v, ch]
RECURSIVE canonicalise_json(_, _)
canonicalise_json(value, default_consent) ==
    WalkValue(value,
              [i \in 1..Len(value.kids) |->
                   canonicalise_json(value.kids[i].v, default_consent)],
              default_consent)

-----------------------------------------------------------------------------
(* Stored text.  The text of a column or file is [json, val, loose, s, nl]: *)
(* text that json.loads accepts has json = TRUE, val the value it parses   *)
(* to (members in the order of the text), loose = TRUE when its spacing or *)
(* escapes differ from the serialiser's, and nl trailing newlines; any     *)
(* other text has json = FALSE and s its characters ("LF" a newline).      *)

JsonText(val, loose, nl) == [json |-> TRUE, val |-> val, loose |-> loose, s |-> <<>>, nl |-> nl]

PlainText(s) == [json |-> FALSE, val |-> Null, loose |-> FALSE, s |-> s, nl |-> 0]

\* sort_keys=True: the order of the keys of the model
KeyOrder == <<"consent", "domain", "note", "pointer">>

InOrder(kids, present) ==
    [i \in 1..Len(present) |-> [k |-> present[i], v |-> Get(kids, present[i])]]

ByKey(kids) == InOrder(kids, SelectSeq(KeyOrder, LAMBDA k : HasKey(kids, k)))

SortNode(value, kids) ==
    CASE value.t = "obj" -> Obj(ByKey(kids))
      [] value.t = "arr" -> [t |-> "arr", s |-> <<>>, kids |-> kids]
      [] OTHER -> value

\* the value as json.dumps(sort_keys=True) writes it: every object's
\* members in key order
RECURSIVE SortKeys(_)
SortKeys(value) ==
    SortNode(value, [i \in 1..Len(value.kids) |->
                         [k |-> value.kids[i].k, v |-> SortKeys(value.kids[i].v)]])

\* json.dumps(payload, ensure_ascii=False, sort_keys=True)
Dumps(payload) == JsonText(SortKeys(payload), FALSE, 0)

\* mutant: `changed` decided by comparing the serialised text
JsonResult_ComparesText(txt, walk) ==
    IF Dumps(walk.v) # txt
    THEN [t |-> Dumps(walk.v), ch |-> TRUE]
    ELSE [t |-> txt, ch |-> FALSE]

\* lines 111-114 on the walker's result
JsonResult(txt, walk) ==
    IF walk.ch THEN [t |-> Dumps(walk.v), ch |-> TRUE] ELSE [t |-> txt, ch |-> FALSE]

\* line 109 on the scanner's result
PlainResult(scan) == [t |-> PlainText(scan.s), ch |-> scan.ch]

\* a pair (text, changed) as [t, ch]
process_json_text(txt, default_consent) ==
    IF txt.json
    THEN JsonResult(txt, canonicalise_json(txt.val, default_consent))
    ELSE PlainResult(canonicalise_text(txt.s))

\* updated.endswith("\n")
EndsWithNewline(txt) ==
    IF txt.json THEN txt.nl > 0 ELSE (txt.s # <<>> /\ txt.s[Len(txt.s)] = "LF")

\* updated + "\n"
AddNewline(txt) ==
    IF txt.json
    THEN [txt EXCEPT !.nl = @ + 1]
    ELSE [txt EXCEPT !.s = Append(@, "LF")]

\* the text line 173 writes
Written(updated) == IF EndsWithNewline(updated) THEN updated ELSE AddNewline(updated)

-----------------------------------------------------------------------------
(* memory_records.  A row is [id, value, extra, links, source, updated];   *)
(* a column is <<>> for NULL or <<text>>.  Ids are distinct (the primary   *)
(* key).  An update is [id, fields], fields[c] = <<>> for a column that is *)
(* not assigned and <<text>> for one that is.                              *)

Columns == <<"value", "extra", "links", "source">>

\* lines 138-139 on the pair process_json_text returned
FieldOf(processed) == IF processed.ch THEN <<processed.t>> ELSE <<>>

\* lines 134-139 for one column: the entry of updated_fields
ColumnUpdate(raw, default_consent) ==
    IF raw = <<>> THEN <<>> ELSE FieldOf(process_json_text(raw[1], default_consent))

\* updated_fields of one row
UpdatedFields(row, default_consent) ==
    [c \in {"value", "extra", "links", "source"} |-> ColumnUpdate(row[c], default_consent)]

HasFields(fields) == \E c \in DOMAIN fields : fields[c] # <<>>

AllFields(rows, default_consent) ==
    [i \in 1..Len(rows) |-> [id |-> rows[i].id, fields |-> UpdatedFields(rows[i], default_consent)]]

\* lines 130-141: the list `updates`
Updates(rows, default_consent) ==
    SelectSeq(AllFields(rows, default_consent), LAMBDA u : HasFields(u.fields))

\* mutant: line 143 without the dry_run test
ReturnsEarly_IgnoreDryRun(upds, dry) == upds = <<>>

\* line 143: `if not updates or dry_run`
ReturnsEarly(upds, dry) == upds = <<>> \/ dry

\* mutant: the SET clause names every column
Assigned_Always(old, new) == new

Assigned(old, new) == IF new # <<>> THEN new ELSE old

\* the row after UPDATE ... SET <fields>, updated=datetime('now')
AssignRow(row, fields, clock) ==
    [id |-> row.id,
     value |-> Assigned(row.value, fields.value),
     extra |-> Assigned(row.extra, fields.extra),
     links |-> Assigned(row.links, fields.links),
     source |-> Assigned(row.source, fields.source),
     updated |-> clock]

\* lines 147-153: UPDATE memory_records SET ... WHERE id=?
ExecuteUpdate(rows, update, clock) ==
    [i \in 1..Len(rows) |->
        IF rows[i].id = update.id THEN AssignRow(rows[i], update.fields, clock) ELSE rows[i]]

\* mutant: line 170 without the test of `modified`
WritesFile_Always(modified, dry) == ~dry

\* lines 170-172: the file is written when modified and not dry_run
WritesFile(modified, dry) == modified /\ ~dry

-----------------------------------------------------------------------------
(* Idle values: what a specification leaves the other drivers' state at *)

NoResult == [s |-> <<"?">>, ch |-> FALSE]

NoWalk == [v |-> Null, ch |-> FALSE]

IdleText ==
    /\ text = <<>>
    /\ ptr = NoResult
    /\ once = NoResult
    /\ twice = NoResult
    /\ tpc = "idle"

IdleJson ==
    /\ doc = Null
    /\ consent = <<"private">>
    /\ walked = NoWalk
    /\ rewalked = NoWalk
    /\ jpc = "idle"

NoFirst ==
    [ended |-> "none", dry |-> FALSE, rows |-> 0, files |-> 0, errors |-> 0,
     in_stores |-> <<>>, in_files |-> <<>>]

IdleRun ==
    /\ stores = <<>>
    /\ files = <<>>
    /\ extra_json = <<>>
    /\ dry_run = FALSE
    /\ args_consent = <<"private">>
    /\ pc = "idle"
    /\ si = 0
    /\ updates = <<>>
    /\ ui = 0
    /\ pending = <<>>
    /\ conn = "none"
    /\ targets = <<>>
    /\ fi = 0
    /\ total_updates = 0
    /\ json_changed = 0
    /\ run = 0
    /\ first = NoFirst
    /\ snap = [stores |-> <<>>, files |-> <<>>]
    /\ commits = <<>>
    /\ outcome = <<>>
    /\ rupdates = {}
    /\ faults = 0
    /\ fwrites = {}
    /\ log = <<>>

-----------------------------------------------------------------------------
(* SpecText: the text functions applied to bounded input strings *)

\* the lexical pieces input strings are assembled from
Pieces ==
    { <<"<", "@">>, <<"<", "@", "A", ":">>, <<"<", "@", "a", ":">>,
      <<"A">>, <<"b">>, <<":">>, <<">">>, <<" ">>,
      <<"FWGT">>, <<"FWCOLON">>, <<"DIAERESIS">> }

PieceSeqs == UNION { [1..n -> Pieces] : n \in 0..MaxPieces }

\* filler that brings a token to the length limit of canonicalise_pointer
Fill == [i \in 1..(MaxTokenLen - 6) |-> "b"]

\* token-like strings around the limits: of the regular expression (255
\* interior characters) and of canonicalise_pointer (256 characters, counted
\* after normalisation)
LongTokens ==
    { open \o Fill \o rest \o <<">">> :
        open \in { <<"<", "@">>, <<"<", "@", "A", ":">> },
        rest \in { <<>>, <<"A">>, <<"A", "b">>, <<"DIAERESIS">>, <<"A", "A", "A">>,
                   <<"A", "A", "A", "A">> } }

\* the long tokens alone and between other tokens
LongTexts ==
    { before \o token \o after :
        before \in { <<>>, <<"<", "@", "A", ":", "b", ">", " ">> },
        token \in LongTokens \cup { <<"<", "@", "A", ">">> },
        after \in { <<>>, <<"<", "@", "A", ":", "b", ">">> } }

InitText ==
    /\ text \in { Join(ps) : ps \in PieceSeqs } \cup LongTexts
    /\ ptr = NoResult
    /\ once = NoResult
    /\ twice = NoResult
    /\ tpc = "start"
    /\ IdleJson
    /\ IdleRun

ApplyPointer ==
    /\ tpc = "start"
    /\ ptr' = canonicalise_pointer(text)
    /\ tpc' = "pointer"
    /\ UNCHANGED <<text, once, twice>>
    /\ UNCHANGED jsonVars
    /\ UNCHANGED runVars

ApplyText ==
    /\ tpc = "pointer"
    /\ once' = canonicalise_text(text)
    /\ tpc' = "once"
    /\ UNCHANGED <<text, ptr, twice>>
    /\ UNCHANGED jsonVars
    /\ UNCHANGED runVars

ApplyTextAgain ==
    /\ tpc = "once"
    /\ twice' = canonicalise_text(once.s)
    /\ tpc' = "twice"
    /\ UNCHANGED <<text, ptr, once>>
    /\ UNCHANGED jsonVars
    /\ UNCHANGED runVars

NextText == ApplyPointer \/ ApplyText \/ ApplyTextAgain

SpecText == InitText /\ [][NextText]_vars

-----------------------------------------------------------------------------
(* SpecJson: the walker applied to bounded JSON values *)

\* --default-consent choices
ConsentLevels == { <<"private">>, <<"shared">>, <<"public">> }

UpperToken == <<"<", "@", "A", ":", "b", ">">>

LowerToken == <<"<", "@", "a", ":", "b", ">">>

\* one string the exact-match tier accepts, holding a second token
TwoTokens == UpperToken \o <<" ">> \o UpperToken

\* a token inside free text
Embedded == <<"b", " ">> \o UpperToken

\* the string values of the input documents
Strings ==
    { UpperToken, LowerToken, TwoTokens, Embedded, <<"public">>, <<"E", "b">> }

Keys == { "pointer", "consent", "domain", "note" }

Leaves == { Str(s) : s \in Strings } \cup { Num }

\* the containers a member or element may be
Nested ==
    { Obj(<<[k |-> "pointer", v |-> Str(UpperToken)]>>),
      Obj(<<[k |-> "domain", v |-> Str(<<"E", "b">>)], [k |-> "consent", v |-> Num]>>),
      Arr(<<Str(UpperToken), Num>>) }

Members == Leaves \cup Nested

\* the key sequences of an object: distinct keys, any order
KeySeqs ==
    UNION { { ks \in [1..n -> Keys] : \A i, j \in 1..n : i # j => ks[i] # ks[j] } :
            n \in 0..MaxKeys }

ObjectsOver(ks) ==
    { Obj([i \in 1..Len(ks) |-> [k |-> ks[i], v |-> vs[i]]]) : vs \in [1..Len(ks) -> Members] }

Docs ==
    UNION { ObjectsOver(ks) : ks \in KeySeqs }
        \cup { Arr(<<m>>) : m \in Members }
        \cup Leaves

InitJson ==
    /\ doc \in Docs
    /\ consent \in ConsentLevels
    /\ walked = NoWalk
    /\ rewalked = NoWalk
    /\ jpc = "start"
    /\ IdleText
    /\ IdleRun

Walk ==
    /\ jpc = "start"
    /\ walked' = canonicalise_json(doc, consent)
    /\ jpc' = "walked"
    /\ UNCHANGED <<doc, consent, rewalked>>
    /\ UNCHANGED textVars
    /\ UNCHANGED runVars

WalkAgain ==
    /\ jpc = "walked"
    /\ rewalked' = canonicalise_json(walked.v, consent)
    /\ jpc' = "rewalked"
    /\ UNCHANGED <<doc, consent, walked>>
    /\ UNCHANGED textVars
    /\ UNCHANGED runVars

NextJson == Walk \/ WalkAgain

SpecJson == InitJson /\ [][NextJson]_vars

-----------------------------------------------------------------------------
(* Spec: main over a state directory, run twice.  The first run is a       *)
(* dry-run or an apply run; the run after it is an apply run on what the   *)
(* first left.  In SpecInterrupted a first run that applies may also be    *)
(* stopped between two storage units.  datetime('now') of run r is r; the  *)
(* rows start at 0.                                                        *)

TokenObj == Obj(<<[k |-> "pointer", v |-> Str(UpperToken)]>>)

CleanObj ==
    Obj(<<[k |-> "pointer", v |-> Str(LowerToken)], [k |-> "consent", v |-> Str(<<"public">>)]>>)

NoteObj == Obj(<<[k |-> "note", v |-> Str(TwoTokens)]>>)

\* the columns of the input rows
RowSamples ==
    { [value |-> <<JsonText(TokenObj, TRUE, 0)>>, extra |-> <<>>, links |-> <<>>,
       source |-> <<PlainText(Embedded)>>],
      [value |-> <<JsonText(CleanObj, TRUE, 0)>>, extra |-> <<PlainText(<<"b">>)>>,
       links |-> <<>>, source |-> <<>>],
      [value |-> <<JsonText(NoteObj, FALSE, 0)>>, extra |-> <<>>,
       links |-> <<JsonText(Arr(<<Str(LowerToken)>>), FALSE, 0)>>, source |-> <<>>] }

MakeRow(i, cols) ==
    [id |-> i, value |-> cols.value, extra |-> cols.extra, links |-> cols.links,
     source |-> cols.source, updated |-> 0]

MakeRows(cols) == [i \in 1..Len(cols) |-> MakeRow(i, cols[i])]

\* a store is [ok, table, rows]: ok = FALSE for a file sqlite3.connect
\* cannot open, table = FALSE for a database without memory_records
FirstStores ==
    { [ok |-> TRUE, table |-> TRUE, rows |-> MakeRows(cols)] :
        cols \in UNION { [1..n -> RowSamples] : n \in 0..MaxRows } }

SecondStores ==
    { [ok |-> FALSE, table |-> FALSE, rows |-> <<>>],
      [ok |-> TRUE, table |-> FALSE, rows |-> <<>>],
      [ok |-> TRUE, table |-> TRUE,
       rows |-> MakeRows(<<[value |-> <<JsonText(TokenObj, FALSE, 0)>>, extra |-> <<>>,
                            links |-> <<>>, source |-> <<>>]>>)] }

\* a file is [exists, config, content]: path 1 is under <state>/config,
\* path 2 is outside it and may be missing when it is an --extra-json path
FileSets ==
    { <<[exists |-> TRUE, config |-> TRUE, content |-> c],
        [exists |-> e, config |-> FALSE, content |-> JsonText(CleanObj, FALSE, 1)]>> :
        c \in { JsonText(TokenObj, TRUE, 1), PlainText(Embedded),
                PlainText(Embedded \o <<"LF", "LF">>) },
        e \in BOOLEAN }

ExtraLists == { <<>>, <<1>>, <<2>> }

\* the --default-consent values the runs are started with: the default and
\* one that is given
RunConsents == { <<"private">>, <<"public">> }

NoCommits == [i \in 1..2 |-> 0]

NoOutcome == [i \in 1..2 |-> "pending"]

Init ==
    /\ stores \in { <<a, b>> : a \in FirstStores, b \in SecondStores }
    /\ files \in FileSets
    /\ extra_json \in ExtraLists
    /\ files[2].exists \/ extra_json = <<2>>
    /\ dry_run \in BOOLEAN
    /\ args_consent \in RunConsents
    /\ pc = "store"
    /\ si = 1
    /\ updates = <<>>
    /\ ui = 0
    /\ pending = <<>>
    /\ conn = "none"
    /\ targets = <<>>
    /\ fi = 0
    /\ total_updates = 0
    /\ json_changed = 0
    /\ run = 1
    /\ first = NoFirst
    /\ snap = [stores |-> stores, files |-> files]
    /\ commits = NoCommits
    /\ outcome = NoOutcome
    /\ rupdates = {}
    /\ faults = 0
    /\ fwrites = {}
    /\ log = <<>>
    /\ IdleText
    /\ IdleJson

\* one executed operation: a statement on store `unit` (op "master" the
\* sqlite_master query of lines 123-125, "select" line 129, "update" lines
\* 150-153 for row `id` with the assigned columns `cols`, "commit" line 154)
\* or a file operation on path `unit` ("read" line 168, "write" line 171)
Statement(op, unit, id, cols) == [op |-> op, unit |-> unit, id |-> id, cols |-> cols]

Executed(op, unit) == Statement(op, unit, 0, {})

\* lines 147-150: the columns of the SET clause
SetColumns(fields) == { c \in DOMAIN fields : fields[c] # <<>> } \cup { "updated" }

\* main's loop moves to the next store; the inputs and the file side stay
NextStore ==
    /\ si' = si + 1
    /\ pc' = "store"
    /\ updates' = <<>>
    /\ ui' = 0
    /\ pending' = <<>>
    /\ rupdates' = {}
    /\ UNCHANGED <<files, extra_json, dry_run, args_consent, targets, fi, json_changed,
                   run, first, snap, fwrites>>
    /\ UNCHANGED <<textVars, jsonVars>>

AtStore == pc = "store" /\ si <= Len(stores)

\* line 119 raises sqlite3.Error: no connection; lines 219-221 skip the file
StoreUnavailable ==
    /\ AtStore
    /\ ~stores[si].ok
    /\ outcome' = [outcome EXCEPT ![si] = "error"]
    /\ conn' = "none"
    /\ NextStore
    /\ UNCHANGED <<stores, total_updates, commits>>
    /\ UNCHANGED faults
    /\ UNCHANGED log

\* mutant: the rows are selected although the table is missing
StoreNoTable_Selects ==
    /\ AtStore
    /\ stores[si].ok
    /\ ~stores[si].table
    /\ outcome' = [outcome EXCEPT ![si] = "returned"]
    /\ conn' = "open"
    /\ NextStore
    /\ UNCHANGED <<stores, total_updates, commits>>
    /\ UNCHANGED faults
    /\ log' = log \o <<Executed("master", si), Executed("select", si)>>

\* lines 119-127: the table is missing, return 0
StoreNoTable ==
    /\ AtStore
    /\ stores[si].ok
    /\ ~stores[si].table
    /\ outcome' = [outcome EXCEPT ![si] = "returned"]
    /\ conn' = "open"
    /\ NextStore
    /\ UNCHANGED <<stores, total_updates, commits>>
    /\ UNCHANGED faults
    /\ log' = Append(log, Executed("master", si))

\* mutant: the error of a store ends main
QueryError_Aborts ==
    /\ AtStore
    /\ stores[si].ok
    /\ outcome' = [outcome EXCEPT ![si] = "error"]
    /\ conn' = "open"
    /\ pc' = "crashed"
    /\ UNCHANGED <<stores, files, extra_json, dry_run, args_consent, si, updates, ui,
                   pending, targets, fi, total_updates, json_changed, run, first, snap,
                   commits, rupdates, fwrites>>
    /\ UNCHANGED <<textVars, jsonVars>>
    /\ faults < MaxFaults
    /\ faults' = faults + 1
    /\ \E failing \in { "master", "select" } :
          /\ failing = "select" => stores[si].table
          /\ log' = IF failing = "select" THEN Append(log, Executed("master", si)) ELSE log

\* a query of lines 123-129 raises sqlite3.Error; lines 219-221 skip the file
QueryError ==
    /\ AtStore
    /\ stores[si].ok
    /\ outcome' = [outcome EXCEPT ![si] = "error"]
    /\ conn' = "open"
    /\ NextStore
    /\ UNCHANGED <<stores, total_updates, commits>>
    /\ faults < MaxFaults
    /\ faults' = faults + 1
    /\ \E failing \in { "master", "select" } :
          /\ failing = "select" => stores[si].table
          /\ log' = IF failing = "select" THEN Append(log, Executed("master", si)) ELSE log

\* lines 119-144: nothing to update, or dry_run: return len(updates);
\* lines 222-225 add it to the total
StoreReturnsEarly ==
    /\ AtStore
    /\ stores[si].ok
    /\ stores[si].table
    /\ ReturnsEarly(Updates(stores[si].rows, args_consent), dry_run)
    /\ total_updates' = total_updates + Len(Updates(stores[si].rows, args_consent))
    /\ outcome' = [outcome EXCEPT ![si] = "returned"]
    /\ conn' = "open"
    /\ NextStore
    /\ UNCHANGED <<stores, commits>>
    /\ UNCHANGED faults
    /\ log' = log \o <<Executed("master", si), Executed("select", si)>>

\* lines 119-146: there are updates to execute
StoreBegin ==
    /\ AtStore
    /\ stores[si].ok
    /\ stores[si].table
    /\ ~ReturnsEarly(Updates(stores[si].rows, args_consent), dry_run)
    /\ updates' = Updates(stores[si].rows, args_consent)
    /\ ui' = 1
    /\ pending' = stores[si].rows
    /\ conn' = "open"
    /\ pc' = "update"
    /\ UNCHANGED <<stores, files, extra_json, dry_run, args_consent, si, targets, fi,
                   total_updates, json_changed, run, first, snap, commits, outcome,
                   rupdates, fwrites>>
    /\ UNCHANGED <<textVars, jsonVars>>
    /\ UNCHANGED faults
    /\ log' = log \o <<Executed("master", si), Executed("select", si)>>

\* mutant: every UPDATE committed as it is executed
UpdateRow_Autocommit ==
    /\ pc = "update"
    /\ ui <= Len(updates)
    /\ pending' = ExecuteUpdate(pending, updates[ui], run)
    /\ stores' = [stores EXCEPT ![si].rows = ExecuteUpdate(pending, updates[ui], run)]
    /\ rupdates' = rupdates \cup {updates[ui].id}
    /\ ui' = ui + 1
    /\ UNCHANGED <<files, extra_json, dry_run, args_consent, pc, si, updates, conn,
                   targets, fi, total_updates, json_changed, run, first, snap, commits,
                   outcome, fwrites>>
    /\ UNCHANGED <<textVars, jsonVars>>
    /\ UNCHANGED faults
    /\ log' = Append(log, Statement("update", si, updates[ui].id, SetColumns(updates[ui].fields)))

\* lines 146-153: one UPDATE, inside the connection's open transaction
UpdateRow ==
    /\ pc = "update"
    /\ ui <= Len(updates)
    /\ pending' = ExecuteUpdate(pending, updates[ui], run)
    /\ rupdates' = rupdates \cup {updates[ui].id}
    /\ ui' = ui + 1
    /\ UNCHANGED <<stores, files, extra_json, dry_run, args_consent, pc, si, updates,
                   conn, targets, fi, total_updates, json_changed, run, first, snap,
                   commits, outcome, fwrites>>
    /\ UNCHANGED <<textVars, jsonVars>>
    /\ UNCHANGED faults
    /\ log' = Append(log, Statement("update", si, updates[ui].id, SetColumns(updates[ui].fields)))

\* an UPDATE of lines 150-153 raises sqlite3.Error: the transaction is never
\* committed; lines 219-221 skip the file
UpdateError ==
    /\ pc = "update"
    /\ ui <= Len(updates)
    /\ outcome' = [outcome EXCEPT ![si] = IF ui > 1 THEN "rolled back" ELSE "error"]
    /\ NextStore
    /\ UNCHANGED <<stores, conn, total_updates, commits>>
    /\ faults < MaxFaults
    /\ faults' = faults + 1
    /\ UNCHANGED log

\* lines 154-155: commit, return len(updates); lines 222-225 add it
Commit ==
    /\ pc = "update"
    /\ ui > Len(updates)
    /\ stores' = [stores EXCEPT ![si].rows = pending]
    /\ commits' = [commits EXCEPT ![si] = @ + 1]
    /\ total_updates' = total_updates + Len(updates)
    /\ outcome' = [outcome EXCEPT ![si] = "returned"]
    /\ NextStore
    /\ UNCHANGED conn
    /\ UNCHANGED faults
    /\ log' = Append(log, Executed("commit", si))

\* line 154 raises sqlite3.Error: nothing is committed
CommitError ==
    /\ pc = "update"
    /\ ui > Len(updates)
    /\ outcome' = [outcome EXCEPT ![si] = "rolled back"]
    /\ NextStore
    /\ UNCHANGED <<stores, conn, total_updates, commits>>
    /\ faults < MaxFaults
    /\ faults' = faults + 1
    /\ UNCHANGED log

\* the interpreter finalises the Connection object once update_memory_records
\* has exited and nothing refers to it: the code itself never closes it
Finalize ==
    /\ pc \in {"store", "file"}
    /\ conn = "open"
    /\ conn' = "closed"
    /\ UNCHANGED <<stores, files, extra_json, dry_run, args_consent, pc, si, updates,
                   ui, pending, targets, fi, total_updates, json_changed, run, first, snap,
                   commits, outcome, rupdates, fwrites>>
    /\ UNCHANGED <<textVars, jsonVars>>
    /\ UNCHANGED faults
    /\ UNCHANGED log

\* config_dir.glob("**/*.json")
ConfigFiles == SelectSeq(<<1, 2>>, LAMBDA p : files[p].exists /\ files[p].config)

\* lines 227-230: json_targets
CollectTargets ==
    /\ pc = "store"
    /\ si > Len(stores)
    /\ targets' = extra_json \o ConfigFiles
    /\ fi' = 1
    /\ pc' = "file"
    /\ UNCHANGED <<stores, files, extra_json, dry_run, args_consent, si, updates, ui,
                   pending, conn, total_updates, json_changed, run, first, snap, commits,
                   outcome, rupdates, fwrites>>
    /\ UNCHANGED <<textVars, jsonVars>>
    /\ UNCHANGED faults
    /\ UNCHANGED log

AtFile == pc = "file" /\ fi <= Len(targets)

\* lines 169-173 for the path at fi, processed = process_json_text(original)
FileStep(processed) ==
    /\ json_changed' = IF processed.ch THEN json_changed + 1 ELSE json_changed
    /\ IF WritesFile(processed.ch, dry_run)
       THEN /\ files' = [files EXCEPT ![targets[fi]].content = Written(processed.t)]
            /\ fwrites' = fwrites \cup
                   {[path |-> targets[fi], before |-> files[targets[fi]].content]}
            /\ log' = log \o <<Executed("read", targets[fi]), Executed("write", targets[fi])>>
       ELSE /\ UNCHANGED <<files, fwrites>>
            /\ log' = Append(log, Executed("read", targets[fi]))

\* lines 168-173 for one path
CanonFile ==
    /\ AtFile
    /\ files[targets[fi]].exists
    /\ FileStep(process_json_text(files[targets[fi]].content, args_consent))
    /\ fi' = fi + 1
    /\ UNCHANGED <<stores, extra_json, dry_run, args_consent, pc, si, updates, ui,
                   pending, conn, targets, total_updates, run, first, snap, commits,
                   outcome, rupdates>>
    /\ UNCHANGED <<textVars, jsonVars>>
    /\ UNCHANGED faults

\* mutant: the exception of a file takes the committed rows back
FileMissing_Undoes ==
    /\ AtFile
    /\ ~files[targets[fi]].exists
    /\ pc' = "crashed"
    /\ stores' = snap.stores
    /\ UNCHANGED <<files, extra_json, dry_run, args_consent, si, updates, ui,
                   pending, conn, targets, fi, total_updates, json_changed, run, first,
                   snap, commits, outcome, rupdates, fwrites>>
    /\ UNCHANGED <<textVars, jsonVars>>
    /\ UNCHANGED faults
    /\ UNCHANGED log

\* line 168 raises FileNotFoundError, which nothing catches: main ends with
\* a traceback
FileMissing ==
    /\ AtFile
    /\ ~files[targets[fi]].exists
    /\ pc' = "crashed"
    /\ UNCHANGED <<stores, files, extra_json, dry_run, args_consent, si, updates, ui,
                   pending, conn, targets, fi, total_updates, json_changed, run, first,
                   snap, commits, outcome, rupdates, fwrites>>
    /\ UNCHANGED <<textVars, jsonVars>>
    /\ UNCHANGED faults
    /\ UNCHANGED log

\* lines 233-241: the summary, return 0
Summary ==
    /\ pc = "file"
    /\ fi > Len(targets)
    /\ pc' = "done"
    /\ UNCHANGED <<stores, files, extra_json, dry_run, args_consent, si, updates, ui,
                   pending, conn, targets, fi, total_updates, json_changed, run, first,
                   snap, commits, outcome, rupdates, fwrites>>
    /\ UNCHANGED <<textVars, jsonVars>>
    /\ UNCHANGED faults
    /\ UNCHANGED log

StoreErrors ==
    Cardinality({i \in 1..Len(stores) : outcome[i] \in {"error", "rolled back"}})

\* the process is stopped from outside between two storage units of a
\* first run that applies: after a store, or before a file
Interrupt ==
    /\ run = 1
    /\ ~dry_run
    /\ \/ pc = "store" /\ si > 1
       \/ pc = "file" /\ fi <= Len(targets)
    /\ pc' = "interrupted"
    /\ UNCHANGED <<stores, files, extra_json, dry_run, args_consent, si, updates, ui,
                   pending, conn, targets, fi, total_updates, json_changed, run, first,
                   snap, commits, outcome, rupdates, fwrites>>
    /\ UNCHANGED <<textVars, jsonVars>>
    /\ UNCHANGED faults
    /\ UNCHANGED log

\* the tool is started again, with apply enabled, on what the first run left
RunAgain ==
    /\ run = 1
    /\ pc \in {"done", "crashed", "interrupted"}
    /\ first' = [ended |-> pc, dry |-> dry_run, rows |-> total_updates,
                 files |-> json_changed, errors |-> StoreErrors,
                 in_stores |-> snap.stores, in_files |-> snap.files]
    /\ run' = 2
    /\ dry_run' = FALSE
    /\ pc' = "store"
    /\ si' = 1
    /\ updates' = <<>>
    /\ ui' = 0
    /\ pending' = <<>>
    /\ conn' = "none"
    /\ targets' = <<>>
    /\ fi' = 0
    /\ total_updates' = 0
    /\ json_changed' = 0
    /\ snap' = [stores |-> stores, files |-> files]
    /\ commits' = NoCommits
    /\ outcome' = NoOutcome
    /\ rupdates' = {}
    /\ fwrites' = {}
    /\ UNCHANGED <<stores, files, extra_json, args_consent>>
    /\ UNCHANGED <<textVars, jsonVars>>
    /\ UNCHANGED faults
    /\ log' = <<>>

update_memory_records ==
    \/ StoreUnavailable
    \/ StoreNoTable
    \/ QueryError
    \/ StoreReturnsEarly
    \/ StoreBegin
    \/ UpdateRow
    \/ UpdateError
    \/ Commit
    \/ CommitError

canonicalise_json_files == CanonFile \/ FileMissing

Next ==
    \/ update_memory_records
    \/ Finalize
    \/ CollectTargets
    \/ canonicalise_json_files
    \/ Summary
    \/ RunAgain

Spec == Init /\ [][Next]_vars

\* the runs of Spec, and those whose first run is interrupted
NextInterrupted == Next \/ Interrupt

SpecInterrupted == Init /\ [][NextInterrupted]_vars

-----------------------------------------------------------------------------
(* C1: text canonicalisation is idempotent: canonicalising the result of   *)
(* canonicalise_text again returns the same string and reports no change.  *)
C1_Idempotent ==
    tpc = "twice" => (twice.s = once.s /\ twice.ch = FALSE)

-----------------------------------------------------------------------------
(* C2: re-run stability: when an apply run has ended without an error, the *)
(* run after it reports zero changed rows and zero changed files, commits  *)
(* nothing and writes nothing.                                             *)
C2_RerunStable ==
    (run = 2 /\ first.ended = "done" /\ ~first.dry /\ first.errors = 0)
        => /\ total_updates = 0
           /\ json_changed = 0
           /\ commits = NoCommits
           /\ fwrites = {}
           /\ stores = snap.stores
           /\ files = snap.files

(* C3: dry-run/apply parity: the changed-row and changed-file counts of a  *)
(* dry-run equal the counts of the apply run started after it on the same  *)
(* input, whatever the list of JSON targets is.                            *)
C3_DryApplyParity ==
    (run = 2 /\ pc = "done" /\ first.ended = "done" /\ first.dry
        /\ first.errors = 0 /\ StoreErrors = 0)
        => (total_updates = first.rows /\ json_changed = first.files)

(* C4: a dry-run persists nothing: at every point of a run with dry_run    *)
(* set, every row of every store and every file is what it was before the  *)
(* run, no UPDATE is executed, no file is written and no commit is issued. *)
C4_DryRunPersistsNothing ==
    dry_run =>
        /\ stores = snap.stores
        /\ files = snap.files
        /\ commits = NoCommits
        /\ rupdates = {}
        /\ fwrites = {}
        /\ pc # "update"

\* a dry-run has ended after reporting changed rows and changed files
C4_Witness ==
    /\ dry_run
    /\ pc = "done"
    /\ total_updates > 0
    /\ json_changed > 0

\* the row's columns were reported changed when the run began
RowChanged(row) == HasFields(UpdatedFields(row, args_consent))

(* C5: a record is written only if it changed: a row receives an UPDATE,   *)
(* and differs from what it was before the run, only if one of its four    *)
(* text columns was reported changed; a file is written only if its        *)
(* processed text was reported changed; every other row and file is what   *)
(* it was before the run.                                                  *)
C5_WrittenOnlyIfChanged ==
    /\ \A i \in 1..Len(stores) : \A j \in 1..Len(stores[i].rows) :
            stores[i].rows[j] # snap.stores[i].rows[j]
                => RowChanged(snap.stores[i].rows[j])
    /\ pc = "update" =>
            \A j \in 1..Len(pending) :
                (pending[j] # snap.stores[si].rows[j] \/ pending[j].id \in rupdates)
                    => RowChanged(snap.stores[si].rows[j])
    /\ \A w \in fwrites : process_json_text(w.before, args_consent).ch
    /\ \A p \in 1..Len(files) :
            files[p] # snap.files[p] => \E w \in fwrites : w.path = p

\* an apply run has ended: it updated one row of a store and left the other,
\* and it wrote one of its target files and left another
C5_Witness ==
    /\ ~dry_run
    /\ pc = "done"
    /\ Len(stores[1].rows) = 2
    /\ stores[1].rows[1] # snap.stores[1].rows[1]
    /\ stores[1].rows[2] = snap.stores[1].rows[2]
    /\ \E p \in 1..Len(targets), q \in 1..Len(targets) :
            /\ files[targets[p]] # snap.files[targets[p]]
            /\ files[targets[q]] = snap.files[targets[q]]

\* the row once its update, if it has one, is executed
WhenApplied(row, fields) == IF HasFields(fields) THEN AssignRow(row, fields, run) ELSE row

\* the rows of a store once every update of the run is executed
RowsWhenApplied(rows) ==
    [j \in 1..Len(rows) |-> WhenApplied(rows[j], UpdatedFields(rows[j], args_consent))]

AnyRowChanged(rows) == \E j \in 1..Len(rows) : RowChanged(rows[j])

(* C6: the updates of a store are applied in one transaction committed     *)
(* once after the last update: until the commit, and when processing has   *)
(* failed before it, the store's rows are what they were before the run;   *)
(* when an apply run has returned from the store, all its changed rows are *)
(* updated, by exactly one commit.                                         *)
C6_SingleTransaction ==
    \A i \in 1..Len(stores) :
        /\ commits[i] <= 1
        /\ outcome[i] \in {"pending", "error", "rolled back"} =>
              (stores[i].rows = snap.stores[i].rows /\ commits[i] = 0)
        /\ (outcome[i] = "returned" /\ ~dry_run) =>
              /\ stores[i].rows = RowsWhenApplied(snap.stores[i].rows)
              /\ commits[i] = IF stores[i].rows # snap.stores[i].rows THEN 1 ELSE 0
              /\ commits[i] = 0 => ~AnyRowChanged(snap.stores[i].rows)

\* the first store committed two row updates at once, and the second failed
\* after its update was executed and before it was committed
C6_Witness ==
    /\ ~dry_run
    /\ outcome[1] = "returned"
    /\ commits[1] = 1
    /\ Len(stores[1].rows) = 2
    /\ \A j \in 1..2 : stores[1].rows[j] # snap.stores[1].rows[j]
    /\ outcome[2] = "rolled back"
    /\ stores[2].rows = snap.stores[2].rows

(* C7: the connection update_memory_records opened is released on every    *)
(* exit path: whenever the function is not executing, no connection of its *)
(* is open.                                                                *)
C7_ConnectionReleased == pc # "update" => conn # "open"

-----------------------------------------------------------------------------
(* Helpers of the walker claims *)

\* the validity gate of canonicalise_pointer: the normalised string is at
\* most 256 long, starts with "<@", ends with ">" and has a ":" inside
ValidNormalised(normalised) ==
    /\ Len(normalised) <= MaxTokenLen
    /\ StartsWithOpen(normalised)
    /\ EndsWithClose(normalised)
    /\ IndexOf(SubSeq(normalised, 3, Len(normalised) - 1), ":") # 0

IsPointerToken(token) == ValidNormalised(ReplaceCRLF(NFKC(token)))

\* every object at or below a value
RECURSIVE ObjectsOf(_)
ObjectsOf(value) ==
    (IF value.t = "obj" THEN {value} ELSE {})
        \cup UNION { ObjectsOf(value.kids[i].v) : i \in 1..Len(value.kids) }

\* every object at or below `before` with the object the walker left at the
\* same place of `after`, as [b, a] (the walker keeps every member and
\* element at its index)
RECURSIVE ObjectPairs(_, _)
ObjectPairs(before, after) ==
    (IF before.t = "obj" THEN {[b |-> before, a |-> after]} ELSE {})
        \cup UNION { ObjectPairs(before.kids[i].v, after.kids[i].v) :
                     i \in 1..Len(before.kids) }

\* what the walker makes of one member's value taken by itself
MemberAlone(item, default_consent) ==
    IF item.t = "str"
    THEN Str(IF canonicalise_pointer(item.s).ch
             THEN canonicalise_pointer(item.s).s
             ELSE canonicalise_text(item.s).s)
    ELSE canonicalise_json(item, default_consent).v

-----------------------------------------------------------------------------
(* C8 as stated: an object that has a consent key before the walk has the  *)
(* same value under consent after it, whatever that value is.              *)
C8_ConsentUntouched ==
    jpc = "walked" =>
        \A p \in ObjectPairs(doc, walked.v) :
            HasKey(p.b.kids, "consent") =>
                Get(p.a.kids, "consent") = Get(p.b.kids, "consent")

(* C8 amended: a consent key already present is never replaced by the      *)
(* default consent nor touched because of another field: after the walk it *)
(* holds what the walker makes of the consent value taken by itself, which *)
(* is the value before whenever that value holds no token to rewrite.      *)
C8_ConsentNotOverwritten ==
    jpc = "walked" =>
        \A p \in ObjectPairs(doc, walked.v) :
            HasKey(p.b.kids, "consent") =>
                /\ Get(p.a.kids, "consent") = MemberAlone(Get(p.b.kids, "consent"), consent)
                /\ (~canonicalise_json(Arr(<<Get(p.b.kids, "consent")>>), consent).ch
                        => Get(p.a.kids, "consent") = Get(p.b.kids, "consent"))

\* an object with a consent level other than the default and a pointer the
\* exact-match tier rewrites has been walked
C8_Witness ==
    /\ jpc = "walked"
    /\ doc.t = "obj"
    /\ HasKey(doc.kids, "consent")
    /\ Get(doc.kids, "consent") = Str(<<"public">>)
    /\ consent = <<"private">>
    /\ Get(doc.kids, "pointer") = Str(UpperToken)
    /\ Get(walked.v.kids, "pointer") = Str(LowerToken)

(* C9: an object without a consent key whose pointer field holds a string  *)
(* the exact-match tier changes gets consent = the default consent level,  *)
(* its pointer replaced by the canonical form, and changed = true.         *)
C9_ConsentInjected ==
    jpc = "walked" =>
        \A p \in ObjectPairs(doc, walked.v) :
            LET pointer == Get(p.b.kids, "pointer")
            IN  (/\ pointer.t = "str"
                 /\ canonicalise_pointer(pointer.s).ch
                 /\ ~HasKey(p.b.kids, "consent"))
                    => /\ Get(p.a.kids, "consent") = Str(consent)
                       /\ Get(p.a.kids, "pointer") = Str(canonicalise_pointer(pointer.s).s)
                       /\ walked.ch

\* a pointer-only object with an upper-case prefix has been walked
C9_Witness ==
    /\ jpc = "walked"
    /\ doc = Obj(<<[k |-> "pointer", v |-> Str(UpperToken)]>>)
    /\ consent = <<"shared">>
    /\ HasKey(walked.v.kids, "consent")

(* C10: after the walk every object whose pointer field holds a valid      *)
(* pointer token has a consent key, also when the pointer was canonical    *)
(* before the run.                                                         *)
C10_ConsentPresent ==
    jpc = "walked" =>
        \A o \in ObjectsOf(walked.v) :
            LET pointer == Get(o.kids, "pointer")
            IN  (pointer.t = "str" /\ IsPointerToken(pointer.s)) => HasKey(o.kids, "consent")

-----------------------------------------------------------------------------
\* the domain member of an object, Null when it has none
DomainOf(o) == Get(o.kids, "domain")

(* C11: after the walk every object at every depth whose domain is a       *)
(* string has it in lower case: the lower-cased form of what the token     *)
(* tiers make of the value; and the walker reports changed = true whenever *)
(* it lowered a domain, whether or not a token changed.                    *)
C11_DomainFolded ==
    jpc = "walked" =>
        /\ \A o \in ObjectsOf(walked.v) :
                DomainOf(o).t = "str" => Lower(DomainOf(o).s) = DomainOf(o).s
        /\ \A p \in ObjectPairs(doc, walked.v) :
                DomainOf(p.b).t = "str" =>
                    /\ DomainOf(p.a) = Str(Lower(MemberAlone(DomainOf(p.b), consent).s))
                    /\ DomainOf(p.a) # MemberAlone(DomainOf(p.b), consent) => walked.ch

\* an object whose only member is a domain with an upper-case letter and no
\* token has been walked, also one level down
C11_Witness ==
    /\ jpc = "walked"
    /\ doc = Arr(<<Obj(<<[k |-> "domain", v |-> Str(<<"E", "b">>)],
                         [k |-> "consent", v |-> Num]>>)>>)
    /\ walked.ch
    /\ DomainOf(walked.v.kids[1].v) = Str(<<"e", "b">>)

-----------------------------------------------------------------------------
\* the elements of a sequence
Range(seq) == { seq[i] : i \in 1..Len(seq) }

\* the text of the match at span
MatchText(value, span) == SubSeq(value, span[1], span[2])

\* the scanner's result for value when the match at span stays as it is:
\* before and after are its results for the text on either side
AroundMatch(value, span, before, after) ==
    [s |-> before.s \o MatchText(value, span) \o after.s, ch |-> before.ch \/ after.ch]

LeftAlone(value, span) ==
    AroundMatch(value, span,
                canonicalise_text(SubSeq(value, 1, span[1] - 1)),
                canonicalise_text(SubSeq(value, span[2] + 1, Len(value))))

(* C12: a match of the regular expression that fails the validation of     *)
(* canonicalise_pointer (normalised length over 256, or no ":" inside) is  *)
(* in the scanner's output with the characters it had in the input,        *)
(* between what the scanner makes of the text before it and of the text    *)
(* after it, and does not set changed.                                     *)
C12_MalformedUnchanged ==
    tpc = "once" =>
        \A span \in Range(FindIter(text, 1)) :
            ~IsPointerToken(MatchText(text, span)) => once = LeftAlone(text, span)

\* a token of 256 characters whose normalised form has 257
OverLong == <<"<", "@", "A", ":">> \o Fill \o <<"DIAERESIS", ">">>

\* the over-long token has been scanned between two tokens that were
\* rewritten
C12_Witness ==
    /\ tpc = "once"
    /\ text = UpperToken \o <<" ">> \o OverLong \o UpperToken
    /\ once.s = LowerToken \o <<" ">> \o OverLong \o LowerToken
    /\ once.ch

-----------------------------------------------------------------------------
\* the index of the first ":" of the interior of a valid normalised token
FirstColon(normalised) ==
    Least({ k \in 3..(Len(normalised) - 1) : normalised[k] = ":" })

\* "<@" + lowercase(prefix) + ":" + remainder + ">", split at index colon
Reassembled(normalised, colon) ==
    <<"<", "@">> \o Lower(SubSeq(normalised, 3, colon - 1)) \o <<":">>
        \o SubSeq(normalised, colon + 1, Len(normalised) - 1) \o <<">">>

ResultOf(token, canonical) == [s |-> canonical, ch |-> canonical # token]

ExpectedPointer(token, normalised) ==
    IF ValidNormalised(normalised)
    THEN ResultOf(token, Reassembled(normalised, FirstColon(normalised)))
    ELSE [s |-> token, ch |-> FALSE]

(* C13: for an input whose normalised form is at most 256 long, starts     *)
(* with "<@", ends with ">" and has a ":" inside, canonicalise_pointer     *)
(* returns "<@" + lowercase(prefix) + ":" + remainder + ">" with the       *)
(* interior split at the first ":" and the remainder as it is, and changed *)
(* exactly when that differs from the input; for every other input it      *)
(* returns (input, false).                                                 *)
C13_PointerResult ==
    tpc = "pointer" => ptr = ExpectedPointer(text, ReplaceCRLF(NFKC(text)))

\* a token with two colons and an upper-case remainder has been canonicalised
C13_Witness ==
    /\ tpc = "pointer"
    /\ text = <<"<", "@", "A", ":", ":", "A", ">">>
    /\ ptr = [s |-> <<"<", "@", "a", ":", ":", "A", ">">>, ch |-> TRUE]

-----------------------------------------------------------------------------
(* C14: a failure on one JSON file does not abort the file adapter: when   *)
(* main has ended, every file of json_targets has been read.               *)
C14_FilesIsolated == pc \in {"done", "crashed"} => fi > Len(targets)

(* C15: the run always completes with a success status: whatever the state *)
(* directory and the extra paths hold, main never ends by an exception.    *)
C15_AlwaysCompletes == pc # "crashed"

\* what update_memory_records returned to main for store i, 0 when it
\* raised or has not returned
Contribution(i) ==
    IF outcome[i] = "returned" THEN Len(Updates(snap.stores[i].rows, args_consent)) ELSE 0

RECURSIVE Contributions(_)
Contributions(n) == IF n = 0 THEN 0 ELSE Contribution(n) + Contributions(n - 1)

(* C16: a store that cannot be opened or queried is skipped and the run    *)
(* continues: a store whose processing raised contributes 0 to the total,  *)
(* every store has been tried before the files are, the whole list of JSON *)
(* targets is processed, and main is never ended by a store.               *)
C16_StoreSkipped ==
    /\ total_updates = Contributions(Len(stores))
    /\ pc \in {"file", "done", "crashed"} => \A i \in 1..Len(stores) : outcome[i] # "pending"
    /\ pc = "crashed" => (fi \in 1..Len(targets) /\ ~files[targets[fi]].exists)
    /\ pc = "done" => (fi = Len(targets) + 1 /\ targets = extra_json \o ConfigFiles)

\* an apply run has ended: the first store, of two rows, raised; the second
\* store was updated and a JSON file rewritten
C16_Witness ==
    /\ pc = "done"
    /\ ~dry_run
    /\ outcome[1] = "error"
    /\ Len(stores[1].rows) = 2
    /\ outcome[2] = "returned"
    /\ commits[2] = 1
    /\ total_updates = 1
    /\ fwrites # {}

\* the text ends with one newline and no more
OneTrailingNewline(txt) ==
    IF txt.json
    THEN txt.nl = 1
    ELSE /\ Len(txt.s) >= 1
         /\ txt.s[Len(txt.s)] = "LF"
         /\ (Len(txt.s) = 1 \/ txt.s[Len(txt.s) - 1] # "LF")

(* C17: every file the file adapter has rewritten ends with exactly one    *)
(* trailing newline, whether the new text is re-serialised JSON or plain   *)
(* text that ended with newlines already.                                  *)
C17_OneTrailingNewline ==
    \A w \in fwrites : OneTrailingNewline(files[w.path].content)

(* C18: row round-trip: the text an apply run stored in a value column it  *)
(* rewrote, processed again, comes back equal and reported unchanged.      *)
C18_RowRoundTrip ==
    \A i \in 1..Len(stores) : \A j \in 1..Len(stores[i].rows) :
        stores[i].rows[j].value # snap.stores[i].rows[j].value =>
            process_json_text(stores[i].rows[j].value[1], args_consent)
                = [t |-> stores[i].rows[j].value[1], ch |-> FALSE]

\* the rows without their updated timestamps
Content(rows) == [j \in 1..Len(rows) |-> [rows[j] EXCEPT !.updated = 0]]

\* lines 168-173 for path p of the files fs
Visited(fs, p, processed) ==
    IF processed.ch THEN [fs EXCEPT ![p].content = Written(processed.t)] ELSE fs

\* the files once an apply run has visited the paths of tgts in order
RECURSIVE FilesAfter(_, _)
FilesAfter(fs, tgts) ==
    IF tgts = <<>> THEN fs
    ELSE FilesAfter(Visited(fs, Head(tgts),
                            process_json_text(fs[Head(tgts)].content, args_consent)),
                    Tail(tgts))

(* C19: an apply run interrupted between two storage units leaves every    *)
(* store it had processed fully migrated and every later store and file    *)
(* untouched; when the run is then repeated to completion, every store's   *)
(* rows (updated timestamps aside) and every file are what one             *)
(* uninterrupted run on the original input produces.                       *)
C19_InterruptedThenRepeated ==
    /\ (run = 1 /\ pc = "interrupted") =>
          /\ \A i \in 1..Len(stores) :
                IF i < si /\ outcome[i] = "returned"
                THEN stores[i].rows = RowsWhenApplied(snap.stores[i].rows)
                ELSE stores[i] = snap.stores[i]
          /\ \A p \in 1..Len(files) :
                (\A k \in 1..(fi - 1) : targets[k] # p) => files[p] = snap.files[p]
    /\ (run = 2 /\ pc = "done" /\ first.ended = "interrupted" /\ first.errors = 0
            /\ StoreErrors = 0) =>
          /\ \A i \in 1..Len(stores) :
                Content(stores[i].rows) = Content(RowsWhenApplied(first.in_stores[i].rows))
          /\ files = FilesAfter(first.in_files, targets)

-----------------------------------------------------------------------------
(* C20: consent is injected only by the exact-match tier on the key        *)
(* pointer: an object that has a consent key after the walk and had none   *)
(* before it had a string under pointer that canonicalise_pointer changes; *)
(* a string changed by the substring scan, a changed string under another  *)
(* key, a string element of an array and a domain lowering add none.       *)
C20_InjectionOnlyByPointer ==
    jpc = "walked" =>
        \A p \in ObjectPairs(doc, walked.v) :
            (HasKey(p.a.kids, "consent") /\ ~HasKey(p.b.kids, "consent")) =>
                /\ Get(p.b.kids, "pointer").t = "str"
                /\ canonicalise_pointer(Get(p.b.kids, "pointer").s).ch
                /\ Get(p.a.kids, "consent") = Str(consent)

\* an object whose pointer was changed by the substring scan and whose
\* domain was lowered has been walked, and has no consent key
C20_Witness ==
    /\ jpc = "walked"
    /\ doc = Obj(<<[k |-> "pointer", v |-> Str(Embedded)],
                   [k |-> "domain", v |-> Str(<<"E", "b">>)]>>)
    /\ walked.ch
    /\ Get(walked.v.kids, "pointer") = Str(<<"b", " ">> \o LowerToken)
    /\ ~HasKey(walked.v.kids, "consent")

-----------------------------------------------------------------------------
\* the text between the matches: Gap(value, spans, k) is what lies after
\* match k - 1 (the start of value for k = 1) and before match k (the end
\* of value for k = Len(spans) + 1)
Gap(value, spans, k) ==
    SubSeq(value,
           IF k = 1 THEN 1 ELSE spans[k - 1][2] + 1,
           IF k > Len(spans) THEN Len(value) ELSE spans[k][1] - 1)

\* the gaps and the canonical forms of the matches, alternating
Alternating(value, spans) ==
    [n \in 1..(2 * Len(spans) + 1) |->
        IF n % 2 = 1
        THEN Gap(value, spans, (n + 1) \div 2)
        ELSE canonicalise_pointer(MatchText(value, spans[n \div 2])).s]

AnyMatchDiffers(value, spans) ==
    \E k \in 1..Len(spans) :
        canonicalise_pointer(MatchText(value, spans[k])).s # MatchText(value, spans[k])

(* C21: the scanner changes nothing outside matches: its output is the     *)
(* input with each match, left to right, replaced by canonicalise_pointer's*)
(* result and every character before, between and after the matches        *)
(* copied in order; changed is true exactly when some match's replacement  *)
(* differs from the matched text; with no match the input is returned      *)
(* with changed = false.                                                   *)
C21_OnlyMatchesReplaced ==
    tpc = "once" =>
        /\ once.s = Join(Alternating(text, FindIter(text, 1)))
        /\ once.ch = AnyMatchDiffers(text, FindIter(text, 1))
        /\ FindIter(text, 1) = <<>> => once = [s |-> text, ch |-> FALSE]

\* a text of three matches with a space between the first two has been
\* scanned: the outer two were rewritten, the malformed one and the space
\* were copied
C21_Witness ==
    /\ tpc = "once"
    /\ text = UpperToken \o <<" ", "<", "@", "A", ">">> \o UpperToken
    /\ Len(FindIter(text, 1)) = 3
    /\ once = [s |-> LowerToken \o <<" ", "<", "@", "A", ">">> \o LowerToken, ch |-> TRUE]

-----------------------------------------------------------------------------
\* line 27: the token as line 28 measures it
Normalised(token) == ReplaceCRLF(NFKC(token))

\* the gaps are copied; a match whose normalised form is longer than
\* MaxTokenLen is copied too, any other match is canonicalised
Capped(value, spans) ==
    [n \in 1..(2 * Len(spans) + 1) |->
        IF n % 2 = 1
        THEN Gap(value, spans, (n + 1) \div 2)
        ELSE IF Len(Normalised(MatchText(value, spans[n \div 2]))) > MaxTokenLen
             THEN MatchText(value, spans[n \div 2])
             ELSE canonicalise_pointer(MatchText(value, spans[n \div 2])).s]

\* the k-th match of value as it stands in the scanner's output
Rewritten(value, spans, k) ==
    canonicalise_pointer(MatchText(value, spans[k])).s # MatchText(value, spans[k])

(* C29: every token the scanner rewrites has a normalised length of at     *)
(* most 256: a match whose normalised form is longer (a 257- or 258-       *)
(* character match, or one that NFKC lengthens past 256) stands in the     *)
(* output exactly as in the input, uppercase prefix included.              *)
C29_OverLongCopied ==
    tpc = "once" =>
        /\ once.s = Join(Capped(text, FindIter(text, 1)))
        /\ \A k \in 1..Len(FindIter(text, 1)) :
              Rewritten(text, FindIter(text, 1), k) =>
                  Len(Normalised(MatchText(text, FindIter(text, 1)[k]))) <= MaxTokenLen

\* a 258-character match with an uppercase prefix follows a short token:
\* the short one was lowered, the long one was copied
C29_Witness ==
    /\ tpc = "once"
    /\ text = UpperToken \o <<" ">> \o <<"<", "@", "A", ":">> \o Fill \o <<"A", "A", "A", ">">>
    /\ Len(FindIter(text, 1)) = 2
    /\ Len(MatchText(text, FindIter(text, 1)[2])) = MaxTokenLen + 2
    /\ once = [s |-> LowerToken \o <<" ">> \o <<"<", "@", "A", ":">> \o Fill \o <<"A", "A", "A", ">">>,
               ch |-> TRUE]

-----------------------------------------------------------------------------
\* every value at or below a value, itself included
RECURSIVE NodesOf(_)
NodesOf(value) ==
    {value} \cup UNION { NodesOf(value.kids[i].v) : i \in 1..Len(value.kids) }

(* C24: the walker's changed flag is exact: for the document and for every *)
(* value inside it, the walker reports changed = true exactly when the     *)
(* value it returns differs from the value it was given.                   *)
C24_ChangedExact ==
    jpc = "walked" =>
        /\ walked.ch <=> (walked.v # doc)
        /\ \A node \in NodesOf(doc) :
              canonicalise_json(node, consent).ch
                  <=> (canonicalise_json(node, consent).v # node)

\* an object whose first field is rewritten and whose last field is not has
\* been walked and reported as changed
C24_Witness ==
    /\ jpc = "walked"
    /\ doc = Obj(<<[k |-> "pointer", v |-> Str(UpperToken)],
                   [k |-> "note", v |-> Str(<<"public">>)]>>)
    /\ walked.ch
    /\ walked.v # doc
    /\ ~canonicalise_json(Str(<<"public">>), consent).ch

-----------------------------------------------------------------------------
\* the keys of an object after the walk: those before it, in their order,
\* then at most one new key, consent with the default level, when the
\* object had none
KeysKept(b, a, default_consent) ==
    /\ Len(a) \in { Len(b), Len(b) + 1 }
    /\ \A i \in 1..Len(b) : a[i].k = b[i].k
    /\ Len(a) = Len(b) + 1 =>
          /\ ~HasKey(b, "consent")
          /\ a[Len(a)] = [k |-> "consent", v |-> Str(default_consent)]

\* `after` has the structure of `before`: only strings differ
RECURSIVE Preserves(_, _, _)
Preserves(before, after, default_consent) ==
    CASE before.t = "obj" ->
            /\ after.t = "obj"
            /\ KeysKept(before.kids, after.kids, default_consent)
            /\ \A i \in 1..Len(before.kids) :
                  Preserves(before.kids[i].v, after.kids[i].v, default_consent)
      [] before.t = "arr" ->
            /\ after.t = "arr"
            /\ Len(after.kids) = Len(before.kids)
            /\ \A i \in 1..Len(before.kids) :
                  /\ after.kids[i].k = ""
                  /\ Preserves(before.kids[i].v, after.kids[i].v, default_consent)
      [] before.t = "str" -> after.t = "str"
      [] OTHER -> after = before

(* C25: the walker preserves structure: an object keeps its keys in their  *)
(* order, with at most one new key, consent, added after them; an array    *)
(* keeps its length and order; numbers, booleans and null are returned     *)
(* unchanged; only string values (and the added consent) can differ.       *)
C25_StructurePreserved ==
    jpc = "walked" => Preserves(doc, walked.v, consent)

\* an object with a pointer and a domain, both rewritten, has been walked:
\* the keys stand in their order with consent after them
C25_Witness ==
    /\ jpc = "walked"
    /\ doc = Obj(<<[k |-> "pointer", v |-> Str(UpperToken)],
                   [k |-> "domain", v |-> Str(<<"E", "b">>)]>>)
    /\ walked.v = Obj(<<[k |-> "pointer", v |-> Str(LowerToken)],
                        [k |-> "domain", v |-> Str(<<"e", "b">>)],
                        [k |-> "consent", v |-> Str(consent)]>>)

-----------------------------------------------------------------------------
\* the strings at or below a value
StringsOf(value) == { node.s : node \in { n \in NodesOf(value) : n.t = "str" } }

(* C26 as stated: after one pass every string of the returned document     *)
(* holds only canonical tokens: the scanner finds nothing left to rewrite  *)
(* in it, also in an object field the exact-match tier accepted as one     *)
(* token although further tokens follow its first ">".                     *)
C26_AllTokensCanonical ==
    jpc = "walked" =>
        \A str \in StringsOf(walked.v) : ~canonicalise_text(str).ch

(* C27 as stated: a string is canonicalised to the same result wherever it *)
(* sits: as an object field under a key other than pointer and domain, as  *)
(* an array element, or as the root.                                       *)
C27_SameResultEverywhere ==
    jpc = "walked" =>
        \A p \in ObjectPairs(doc, walked.v) :
            \A i \in 1..Len(p.b.kids) :
                (p.b.kids[i].v.t = "str" /\ p.b.kids[i].k \notin { "pointer", "domain" }) =>
                    /\ p.a.kids[i].v = canonicalise_json(p.b.kids[i].v, consent).v
                    /\ p.a.kids[i].v
                         = canonicalise_json(Arr(<<p.b.kids[i].v>>), consent).v.kids[1].v

-----------------------------------------------------------------------------
(* Helpers of the claims on the executed statements *)

StoreOps == { "master", "select", "update", "commit" }

FileOps == { "read", "write" }

\* the statements the run has executed on store i, in order
StoreLog(i) == SelectSeq(log, LAMBDA e : e.op \in StoreOps /\ e.unit = i)

\* the UPDATE statements the run has executed on store i for the row id
UpdatesOf(i, id) == SelectSeq(log, LAMBDA e : e.op = "update" /\ e.unit = i /\ e.id = id)

(* C22: a store without a memory_records table is a no-op, in a dry-run    *)
(* and in an apply run: once its sqlite_master query has run the function  *)
(* returns without raising, and it executes no SELECT, no UPDATE and no    *)
(* commit, and leaves the store as it was.                                 *)
C22_NoTableNoOp ==
    \A i \in 1..Len(stores) :
        (snap.stores[i].ok /\ ~snap.stores[i].table) =>
            /\ StoreLog(i) \in { <<>>, <<Executed("master", i)>> }
            /\ StoreLog(i) # <<>> => outcome[i] = "returned"
            /\ outcome[i] \in { "pending", "returned", "error" }
            /\ outcome[i] = "error" => faults > 0
            /\ commits[i] = 0
            /\ stores[i] = snap.stores[i]
            /\ pc = "update" => si # i

\* a dry-run and the apply run after it have both passed a store without
\* the table, the apply run after committing to the store before it
C22_Witness ==
    /\ run = 2
    /\ first.dry
    /\ first.ended = "done"
    /\ pc = "done"
    /\ stores[2].ok
    /\ ~stores[2].table
    /\ outcome[2] = "returned"
    /\ StoreLog(2) = <<Executed("master", 2)>>
    /\ commits[1] = 1
    /\ total_updates = Len(stores[1].rows)

-----------------------------------------------------------------------------
\* the columns updated_fields holds a new text for
ChangedColumns(fields) == { c \in DOMAIN fields : fields[c] # <<>> }

\* the row `now` is `row` with the columns of `fields` holding their new
\* text and, when there is one, the timestamp of the run
UpdatedExactly(row, now, fields) ==
    /\ now.id = row.id
    /\ \A c \in { "value", "extra", "links", "source" } :
          now[c] = IF c \in ChangedColumns(fields) THEN fields[c] ELSE row[c]
    /\ now.updated = IF ChangedColumns(fields) # {} THEN run ELSE row.updated

\* the UPDATE statements of store i for `row` are one statement naming the
\* changed columns and updated, or none when no column changed
OneUpdate(i, row, fields) ==
    UpdatesOf(i, row.id) =
        IF ChangedColumns(fields) # {}
        THEN <<Statement("update", i, row.id, ChangedColumns(fields) \cup { "updated" })>>
        ELSE <<>>

(* C23: in an apply run every changed row receives exactly one UPDATE,     *)
(* which assigns exactly the changed columns and the updated timestamp:    *)
(* null and unchanged columns keep their value, the id stays, and a row    *)
(* without a changed column receives no UPDATE.                            *)
C23_ExactlyOneUpdate ==
    \A i \in 1..Len(stores) :
        /\ \A j \in 1..Len(snap.stores[i].rows) :
              Len(UpdatesOf(i, snap.stores[i].rows[j].id)) <= 1
        /\ (outcome[i] = "returned" /\ ~dry_run) =>
              \A j \in 1..Len(snap.stores[i].rows) :
                  \A fields \in { UpdatedFields(snap.stores[i].rows[j], args_consent) } :
                      /\ OneUpdate(i, snap.stores[i].rows[j], fields)
                      /\ UpdatedExactly(snap.stores[i].rows[j], stores[i].rows[j], fields)

\* an apply run has returned from a store of two rows: one had a changed
\* column beside an unchanged one and null ones, the other had none changed
C23_Witness ==
    /\ ~dry_run
    /\ outcome[1] = "returned"
    /\ Len(snap.stores[1].rows) = 2
    /\ ChangedColumns(UpdatedFields(snap.stores[1].rows[1], args_consent)) = { "value" }
    /\ snap.stores[1].rows[1].links # <<>>
    /\ stores[1].rows[1].links = snap.stores[1].rows[1].links
    /\ stores[1].rows[1].value # snap.stores[1].rows[1].value
    /\ UpdatesOf(1, 1) = <<Statement("update", 1, 1, { "value", "updated" })>>
    /\ ChangedColumns(UpdatedFields(snap.stores[1].rows[2], args_consent)) = {}
    /\ UpdatesOf(1, 2) = <<>>
    /\ stores[1].rows[2] = snap.stores[1].rows[2]

-----------------------------------------------------------------------------
\* the paths line 168 has read, in order
PathsRead == [n \in 1..Len(SelectSeq(log, LAMBDA e : e.op = "read")) |->
                 SelectSeq(log, LAMBDA e : e.op = "read")[n].unit]

\* the UPDATE e of a store that has returned is committed: its row holds
\* the timestamp of the run
Persisted(e) ==
    \E j \in 1..Len(stores[e.unit].rows) :
        /\ stores[e.unit].rows[j].id = e.id
        /\ stores[e.unit].rows[j].updated = run
        /\ stores[e.unit].rows[j] # snap.stores[e.unit].rows[j]

-----------------------------------------------------------------------------
\* text that parses as JSON and for which the walker reports no change
UnchangedJson(txt) == txt.json /\ ~canonicalise_json(txt.val, args_consent).ch

\* the columns of the rows of the stores
AllColumns ==
    { [i |-> i, j |-> j, c |-> c] :
        i \in 1..Len(stores), j \in 1..MaxRows,
        c \in { "value", "extra", "links", "source" } }

\* a column value that is NULL or is not unchanged JSON
MayChange(raw) == raw = <<>> \/ ~UnchangedJson(raw[1])

\* process_json_text on unchanged JSON
ReturnsOriginal(txt) ==
    UnchangedJson(txt) => process_json_text(txt, args_consent) = [t |-> txt, ch |-> FALSE]

\* the rows with a column that is not unchanged JSON
RowsToCount(rows) ==
    { j \in 1..Len(rows) :
        \E c \in { "value", "extra", "links", "source" } :
            rows[j][c] # <<>> /\ ~UnchangedJson(rows[j][c][1]) }

\* one step of a run, on the texts that are unchanged JSON: at the start
\* of a run, what process_json_text returns for the texts the run will
\* meet; in a step, what is assigned, written and counted
KeepsUnchangedJson ==
    /\ (pc = "store" /\ si = 1) =>
          /\ \A x \in AllColumns :
                (x.j <= Len(stores[x.i].rows) /\ stores[x.i].rows[x.j][x.c] # <<>>)
                    => ReturnsOriginal(stores[x.i].rows[x.j][x.c][1])
          /\ \A p \in 1..Len(files) : ReturnsOriginal(files[p].content)
    /\ \A x \in AllColumns :
          x.j <= Len(stores[x.i].rows) =>
              /\ stores'[x.i].rows[x.j][x.c] # stores[x.i].rows[x.j][x.c]
                    => MayChange(stores[x.i].rows[x.j][x.c])
              /\ (pc = "update" /\ pc' = "update" /\ si = x.i
                     /\ pending'[x.j][x.c] # pending[x.j][x.c])
                    => MayChange(pending[x.j][x.c])
    /\ (Len(log') > Len(log) /\ log'[Len(log')].op = "update") =>
          \A c \in log'[Len(log')].cols \ { "updated" } :
              MayChange(pending[log'[Len(log')].id][c])
    /\ \A p \in 1..Len(files) :
          ( \/ files'[p] # files[p]
            \/ \E w \in fwrites' \ fwrites : w.path = p
            \/ (Len(log') > Len(log) /\ log'[Len(log')] = Executed("write", p)) )
              => ~UnchangedJson(files[p].content)
    /\ total_updates' > total_updates =>
          total_updates' - total_updates <= Cardinality(RowsToCount(stores[si].rows))
    /\ json_changed' > json_changed => ~UnchangedJson(files[targets[fi]].content)

(* C28: text that parses as JSON and for which the walker reports no       *)
(* change comes back from process_json_text as the original text with      *)
(* changed = false, however it is formatted: no step of a run assigns such *)
(* a column in an UPDATE, writes such a file, or counts either as changed. *)
C28_UnchangedJsonKept == [][KeepsUnchangedJson]_vars

\* an apply run has ended: it updated the first row of a store and left the
\* second, whose JSON is spaced unlike the serialiser's and holds canonical
\* tokens only; it read such a file too and did not write it
C28_Witness ==
    /\ pc = "done"
    /\ ~dry_run
    /\ Len(snap.stores[1].rows) = 2
    /\ snap.stores[1].rows[2].value = <<JsonText(CleanObj, TRUE, 0)>>
    /\ Dumps(CleanObj) # JsonText(CleanObj, TRUE, 0)
    /\ stores[1].rows[2] = snap.stores[1].rows[2]
    /\ stores[1].rows[1] # snap.stores[1].rows[1]
    /\ UpdatesOf(1, 2) = <<>>
    /\ \E n \in 1..Len(log) : log[n] = Executed("read", 2)
    /\ files[2] = snap.files[2]
    /\ total_updates >= 1

=============================================================================
